---- MODULE Spec2Model ----
(***************************************************************************)
(* Task lifecycle and notification protocol of the MCP notify server       *)
(* (src/src/server/index.ts).                                              *)
(*                                                                         *)
(* The server is a single-threaded Node.js process.  A request handler or  *)
(* an executor segment runs without interruption until it reaches an       *)
(* await; the model has one action per such segment:                       *)
(*   - the CallTool handler of start_long_running_task, in two segments    *)
(*     (up to the await of line 80, and from there to the return);         *)
(*   - the CallTool handler of cancel_task, and its error returns;         *)
(*   - the executor runTask, resumed when the step delay of line 181       *)
(*     elapses and when the sampling round trip of line 215 resolves.      *)
(* The continuation of the await of line 80 is a microtask: it runs before *)
(* any timer fires and before the next inbound message is dispatched, so   *)
(* while a start handler is suspended there no other segment runs.         *)
(* The state of an executor (its closure) is indexed by the rank of the    *)
(* accepted call that created it: the k-th accepted call creates executor  *)
(* k.  A task identifier (line 77, time stamp plus random suffix) is a     *)
(* number; in Spec and SpecFault every generated identifier is new (the    *)
(* k-th call receives identifier k), in SpecCollide the time stamp and the *)
(* suffix may repeat an identifier generated before.                       *)
(***************************************************************************)
EXTENDS Integers, Sequences, FiniteSets, TLC

(* ---------------- bounds of the model ---------------- *)
MaxTasks == 2
MaxSteps == 3
MaxInterval == 2
\* work the accepted tasks together may be configured with: one unit for each
\* task and one for each of its steps
MaxWork == 5

\* notifications and sampling requests dispatched to the client
MaxClientEvents == 3

\* words on the client's command line
MaxArgs == 3

(* ---------------- constants of the program ---------------- *)
MinSteps == 1
MaxStepsAllowed == 1000
MinInterval == 1
DefaultInterval == 1
MinDelayMs == 100
MaxDelayMs == 10000
DefaultDelayMs == 1000
DefaultCliSteps == 5

TaskIds == 1..MaxTasks
\* identifiers a cancel_task call may name: the issued ones and one never issued
CancelIds == 1..(MaxTasks + 1)

VARIABLES
  runningTasks,   \* key set of the Map runningTasks
  taskInfo,       \* the TaskInfo object of each task: currentStep, totalSteps, cancelled
  config,         \* the parsed configuration each executor closes over
  cancelled,      \* the closure variable `cancelled` of each executor
  currentStep,    \* the closure variable `currentStep` of each executor
  i,              \* the loop variable of each executor
  pc,             \* position of each executor: unborn, delay, sampling, done (and notify,
                  \* in the consolidated server)
  events,         \* notifications sent for each task, in order
  starting,       \* tasks whose start handler is suspended at the await of line 80
  nextId,         \* number of calls accepted so far, plus one: the next new identifier
  response,       \* the tool result returned by the step just taken (NoResponse if none)
  removed,        \* history: how often runningTasks.delete removed the task's entry
  cancelPoint,    \* history: the step whose delay had not elapsed when cancel_task succeeded
  taskId,         \* the identifier generated for each executor (0 before it exists)
  entry,          \* the values of the Map runningTasks: the executor whose TaskInfo a key holds
  pending,        \* sampling requests each executor has issued and that have not settled
  requested,      \* history: the steps at which each executor called server.createMessage
  server,         \* the process: running, closing (SIGINT handler at work), exited, crashed,
                  \* killed
  client,         \* the McpNotifyClient: its counters, the result of the handler it ran
                  \* last, and the history of what was dispatched to it
  longRunningTool, \* the LongRunningTool: the position and the counters of execute
  cli             \* the client process: the position of main, its command line, the
                  \* arguments it parsed and the request it sent, or its exit

vars == <<runningTasks, taskInfo, config, cancelled, currentStep, i, pc, events,
          starting, nextId, response, removed, cancelPoint, taskId, entry, pending,
          requested, server, client, longRunningTool, cli>>

NoConfig == [steps |-> 0, notificationInterval |-> 0, delayMs |-> 0, enableSampling |-> FALSE]
NoInfo == [currentStep |-> 0, totalSteps |-> 0, cancelled |-> FALSE]
NoResponse == [tool |-> "none", kind |-> "none", isError |-> FALSE, taskId |-> 0, steps |-> 0]

(* ---------------- inputs ---------------- *)
Opt(field, S) == {<< >>} \cup {field :> v : v \in S}

\* arguments the schema accepts: steps 1..MaxSteps, the interval absent (default 1)
\* or 2..MaxInterval, the shortest delay, enableSampling absent (default true) or
\* false; the delay only scales time, which the model does not measure
AcceptableArgs ==
  {a @@ b @@ c @@ d : a \in {"steps" :> v : v \in 1..MaxSteps},
                      b \in Opt("notificationInterval", 2..MaxInterval),
                      c \in {"delayMs" :> MinDelayMs},
                      d \in Opt("enableSampling", {FALSE})}

\* arguments with one field missing or one step outside its range
FaultyArgs ==
  {<< >>,
   "enableSampling" :> TRUE,
   "steps" :> (MinSteps - 1),
   "steps" :> (MaxStepsAllowed + 1),
   ("steps" :> 1) @@ ("notificationInterval" :> (MinInterval - 1)),
   ("steps" :> 1) @@ ("delayMs" :> (MinDelayMs - 1)),
   ("steps" :> 1) @@ ("delayMs" :> (MaxDelayMs + 1))}

\* the arguments object of a start_long_running_task call
StartArgs == AcceptableArgs \cup FaultyArgs

(* ---------------- LongRunningTaskSchema ---------------- *)
Has(args, field) == field \in DOMAIN args

ValidArgsNoMin(args) ==
  /\ Has(args, "steps") /\ args.steps <= MaxStepsAllowed
  /\ (Has(args, "notificationInterval") => args.notificationInterval >= MinInterval)
  /\ (Has(args, "delayMs") => args.delayMs >= MinDelayMs /\ args.delayMs <= MaxDelayMs)

\* LongRunningTaskSchema.parse succeeds
ValidArgs(args) ==
  /\ Has(args, "steps") /\ args.steps >= MinSteps /\ args.steps <= MaxStepsAllowed
  /\ (Has(args, "notificationInterval") => args.notificationInterval >= MinInterval)
  /\ (Has(args, "delayMs") => args.delayMs >= MinDelayMs /\ args.delayMs <= MaxDelayMs)

\* the value LongRunningTaskSchema.parse returns, defaults filled in
ParsedConfig(args) ==
  [steps |-> args.steps,
   notificationInterval |-> IF Has(args, "notificationInterval")
                            THEN args.notificationInterval ELSE DefaultInterval,
   delayMs |-> IF Has(args, "delayMs") THEN args.delayMs ELSE DefaultDelayMs,
   enableSampling |-> IF Has(args, "enableSampling") THEN args.enableSampling ELSE TRUE]

(* ---------------- notifications ---------------- *)
Event(type, step) == [type |-> type, step |-> step]

TerminalTypes == {"completion", "cancelled", "error"}

\* the notifications whose params carry a progress field: start (line 162),
\* completion (283), cancelled (302) and error (322); the progress and sampling
\* notifications carry none
ProgressTypes == {"start", "completion", "cancelled", "error"}

\* (currentStep / config.steps) * 100 of lines 302 and 322, as the exact quotient
\* num / den: the code neither rounds nor truncates it
Percent(step, steps) == [num |-> step * 100, den |-> steps]

ProgressFieldStartFull(type, step, steps) ==
  IF type \in {"start", "completion"} THEN [num |-> 100, den |-> 1]
  ELSE Percent(step, steps)

\* the progress field of a notification of one of the ProgressTypes
ProgressField(type, step, steps) ==
  IF type = "start" THEN [num |-> 0, den |-> 1]
  ELSE IF type = "completion" THEN [num |-> 100, den |-> 1]
  ELSE Percent(step, steps)

(* ---------------- the client ---------------- *)
\* TOOL_NAMES.EXECUTE_LONG_PROCESS of shared/constants.ts
EXECUTE_LONG_PROCESS == "long-running-task"

\* the names the switch of the server's CallTool handler has a case for
ServerToolNames == {"start_long_running_task", "cancel_task"}

\* the case of the switch of lines 74-124 a tool name selects
ToolCase(name) == IF name \in ServerToolNames THEN name ELSE "default"

\* the methods class Display defines
DisplayMethods ==
  {"showWelcome", "showConnectionStatus", "showExecutionParams", "showExecutionStart",
   "showExecutionResults", "displayResultObject", "showError", "showHelp",
   "showSeparator", "clear"}

\* this.display.<method>(...) returns; otherwise the call raises a TypeError
DisplayCallReturns(method) == method \in DisplayMethods

\* JavaScript values of the statistics: undefined, a number, a string, a function
Undefined == [tag |-> "undefined", n |-> 0, text |-> ""]
Num(n) == [tag |-> "number", n |-> n, text |-> ""]
Str(s) == [tag |-> "string", n |-> 0, text |-> s]
ObjectConstructor == [tag |-> "function", n |-> 0, text |-> "function Object() { [native code] }"]

\* properties a plain object {} inherits from Object.prototype, among the
\* notification types drawn below
InheritedProperties == {"constructor"}

\* obj[key] for a plain object whose own properties are the function obj
Property(obj, key) ==
  IF key \in DOMAIN obj THEN obj[key]
  ELSE IF key \in InheritedProperties THEN ObjectConstructor
  ELSE Undefined

\* (v || 0) + 1 of line 75: a falsy v counts as 0; a function or a string is
\* converted to its text and "1" is appended
OrZeroPlusOne(v) ==
  IF v.tag = "undefined" \/ (v.tag = "string" /\ v.text = "") THEN Num(1)
  ELSE IF v.tag = "number" THEN Num(v.n + 1)
  ELSE Str(v.text \o "1")

\* notification methods, as <<prefix, rest>> standing for prefix/rest
Methods ==
  {<<"notifications", "progress">>, <<"notifications", "error">>,
   <<"notifications", "constructor">>, <<"custom", "progress">>}

\* notification.method.startsWith('notifications/') of line 52
IsNotificationMethod(method) == method[1] = "notifications"

\* notification.method.replace('notifications/', '') of line 74
TypeOf(method) == method[2]

NotificationTypes == {TypeOf(m) : m \in {x \in Methods : IsNotificationMethod(x)}}

\* contents a sampling message may carry: a string, or an object with or
\* without a text
Contents ==
  {[tag |-> "string", text |-> "ping"], [tag |-> "string", text |-> ""],
   [tag |-> "object", text |-> "pong"], [tag |-> "object", text |-> ""],
   [tag |-> "image", text |-> ""]}

\* request.params.messages: absent, or an array of at most one message
SamplingRequests ==
  {[hasMessages |-> FALSE, messages |-> << >>], [hasMessages |-> TRUE, messages |-> << >>]}
    \cup {[hasMessages |-> TRUE, messages |-> <<c>>] : c \in Contents}

\* lines 99-110: the content to echo
ContentOf(request) ==
  LET messages == request.messages
  IN  IF Len(messages) > 0 /\ messages[1].text # ""
      THEN messages[1].text
      ELSE "No content to process"

\* the template literal of line 113
EchoResponse(count, content) == "Echo response #" \o ToString(count) \o ": " \o content

\* the object returned at lines 119-125
SamplingReply(text) ==
  [op |-> "sampling", status |-> "returned", role |-> "assistant", type |-> "text",
   text |-> text]

\* a handler that ended with an exception
Thrown(op) == [op |-> op, status |-> "thrown", role |-> "", type |-> "", text |-> ""]

\* a notification handler that returned
Handled == [op |-> "notification", status |-> "returned", role |-> "", type |-> "", text |-> ""]

NoOutcome == [op |-> "none", status |-> "none", role |-> "", type |-> "", text |-> ""]

\* a client after construction (lines 23-25)
NewClient ==
  [notificationCount |-> << >>,
   samplingCount |-> 0,
   samplingResponses |-> << >>,
   outcome |-> NoOutcome,
   handled |-> [k \in NotificationTypes |-> 0],
   sampled |-> 0]

\* the counters a completion notification or a result carries
Counters(completed, sent, sampling) ==
  [present |-> TRUE, completedSteps |-> completed, notificationsSent |-> sent,
   samplingRequests |-> sampling]

NoCounters ==
  [present |-> FALSE, completedSteps |-> 0, notificationsSent |-> 0, samplingRequests |-> 0]

\* a LongRunningTool on which execute has not been called
NoTool ==
  [pc |-> "idle", params |-> NoConfig, step |-> 0, completedSteps |-> 0,
   notificationsSent |-> 0, samplingRequests |-> 0, issued |-> 0,
   completion |-> NoCounters, result |-> NoCounters]

(* ---------------- the client's command line (parseCliArgs, main) ---------------- *)
NaN == [tag |-> "NaN", n |-> 0, text |-> ""]
Bool(b) == [tag |-> "boolean", n |-> IF b THEN 1 ELSE 0, text |-> ""]

\* the words a command line is made of
Tokens == {"--sampling", "--steps", "--interval", "--verbose", "--help", "true", "false", "2"}

\* process.argv.slice(2)
Argv == UNION {[1..n -> Tokens] : n \in 0..MaxArgs}

\* args[k] of JavaScript, with k counted from one: undefined past the end
At(args, k) == IF k \in DOMAIN args THEN Str(args[k]) ELSE Undefined

\* the decimal integers among the words
Decimal == ("2" :> 2)

\* parseInt(value, 10)
parseInt(value) ==
  IF value.tag = "string" /\ value.text \in DOMAIN Decimal
  THEN Num(Decimal[value.text])
  ELSE NaN

NoExit == [exited |-> FALSE, code |-> 0, message |-> ""]
ProcessExit(code, message) == [exited |-> TRUE, code |-> code, message |-> message]

\* the local variables of parseCliArgs after their declarations
CliDefaults ==
  [serverPath |-> Str("src/server/index-improved.ts"),
   toolName |-> Str("start_long_running_task"),
   steps |-> Undefined, delay |-> Undefined, interval |-> Undefined,
   sampling |-> Undefined, verbose |-> Undefined, exit |-> NoExit]

\* value ?? fallback
OrElse(value, fallback) == IF value = Undefined THEN fallback ELSE value

InRange(value, low, high) == value.tag = "number" /\ value.n >= low /\ value.n <= high

\* CliArgsSchema accepts the object
CliArgsSchema(o) ==
  /\ o.serverPath.tag = "string"
  /\ o.toolName.tag = "string"
  /\ o.steps = Undefined \/ InRange(o.steps, MinSteps, MaxStepsAllowed)
  /\ o.interval = Undefined \/ (o.interval.tag = "number" /\ o.interval.n >= MinInterval)
  /\ o.delay = Undefined \/ InRange(o.delay, MinDelayMs, MaxDelayMs)
  /\ o.sampling.tag = "boolean"
  /\ o.verbose.tag = "boolean"

\* the for loop of parseCliArgs from index k on: the switch on args[k];
\* process.exit ends the loop
RECURSIVE ParseLoop(_, _, _)
ParseLoop(args, k, locals) ==
  IF k > Len(args)
  THEN locals
  ELSE LET arg == args[k] IN
       CASE arg \in {"--server", "-s"} ->
              ParseLoop(args, k + 2, [locals EXCEPT !.serverPath = At(args, k + 1)])
         [] arg \in {"--tool", "-t"} ->
              ParseLoop(args, k + 2, [locals EXCEPT !.toolName = At(args, k + 1)])
         [] arg = "--steps" ->
              ParseLoop(args, k + 2, [locals EXCEPT !.steps = parseInt(At(args, k + 1))])
         [] arg = "--delay" ->
              ParseLoop(args, k + 2, [locals EXCEPT !.delay = parseInt(At(args, k + 1))])
         [] arg = "--interval" ->
              ParseLoop(args, k + 2, [locals EXCEPT !.interval = parseInt(At(args, k + 1))])
         [] arg = "--sampling" ->
              ParseLoop(args, k + 1, [locals EXCEPT !.sampling = Bool(TRUE)])
         [] arg = "--verbose" ->
              ParseLoop(args, k + 1, [locals EXCEPT !.verbose = Bool(TRUE)])
         [] arg \in {"--help", "-h"} ->
              [locals EXCEPT !.exit = ProcessExit(0, "help")]
         [] OTHER ->
              [locals EXCEPT !.exit = ProcessExit(1, "Unknown argument")]

\* parseCliArgs: the loop, then the validation of the object
parseCliArgs(args) ==
  LET locals == ParseLoop(args, 1, CliDefaults)
      object == [locals EXCEPT !.sampling = OrElse(@, Bool(TRUE)),
                               !.verbose = OrElse(@, Bool(FALSE))]
  IN  IF locals.exit.exited THEN locals
      ELSE IF CliArgsSchema(object) THEN object
      ELSE [object EXCEPT !.exit = ProcessExit(1, "Invalid arguments")]

\* the ExecutionParams object main builds from the parsed arguments
executionParams(args) ==
  [steps |-> OrElse(args.steps, Num(DefaultCliSteps)).n,
   interval |-> OrElse(args.interval, Num(DefaultInterval)).n,
   delay |-> OrElse(args.delay, Num(DefaultDelayMs)).n,
   sampling |-> OrElse(args.sampling, Bool(TRUE)) = Bool(TRUE),
   verbose |-> OrElse(args.verbose, Bool(FALSE)) = Bool(TRUE)]

NoParams == [steps |-> 0, interval |-> 0, delay |-> 0, sampling |-> FALSE, verbose |-> FALSE]

\* the client process before main has run
NoCli == [pc |-> "start", argv |-> << >>, exit |-> NoExit, params |-> NoParams]

(* ---------------- state after construction ---------------- *)
Init ==
  /\ runningTasks = {}
  /\ taskInfo = [t \in TaskIds |-> NoInfo]
  /\ config = [t \in TaskIds |-> NoConfig]
  /\ cancelled = [t \in TaskIds |-> FALSE]
  /\ currentStep = [t \in TaskIds |-> 0]
  /\ i = [t \in TaskIds |-> 0]
  /\ pc = [t \in TaskIds |-> "unborn"]
  /\ events = [t \in TaskIds |-> << >>]
  /\ starting = {}
  /\ nextId = 1
  /\ response = NoResponse
  /\ removed = [t \in TaskIds |-> 0]
  /\ cancelPoint = [t \in TaskIds |-> 0]
  /\ taskId = [t \in TaskIds |-> 0]
  /\ entry = [id \in TaskIds |-> 0]
  /\ pending = [t \in TaskIds |-> 0]
  /\ requested = [t \in TaskIds |-> << >>]
  /\ server = "running"
  /\ client = NewClient
  /\ longRunningTool = NoTool
  /\ cli = NoCli

(* ---------------- tool results ---------------- *)
\* the acknowledgement of lines 83-90: its text names the identifier and the steps
StartedResult(t, steps) ==
  [tool |-> "start_long_running_task", kind |-> "started", isError |-> FALSE,
   taskId |-> t, steps |-> steps]

\* the "Cancelled task ..." result of lines 102-109
CancelledResult(id) ==
  [tool |-> "cancel_task", kind |-> "cancelled", isError |-> FALSE, taskId |-> id,
   steps |-> 0]

NotFoundResultPlain(id) ==
  [tool |-> "cancel_task", kind |-> "notfound", isError |-> FALSE, taskId |-> id,
   steps |-> 0]

\* the "Task ... not found" result of lines 111-119
NotFoundResult(id) ==
  [tool |-> "cancel_task", kind |-> "notfound", isError |-> TRUE, taskId |-> id,
   steps |-> 0]

\* the result built by the catch block of lines 126-138
ErrorResult(tool) ==
  [tool |-> tool, kind |-> "error", isError |-> TRUE, taskId |-> 0, steps |-> 0]

\* names a call may carry besides the two tools
OtherToolNames == {"unknown_tool"}

(* ---------------- the process ---------------- *)
\* inbound requests are read: the SIGINT handler has not run
Accepting == server = "running"

\* timers and replies are still dispatched: the process has not ended; while
\* the SIGINT handler awaits server.close() (line 366) they may still be
Alive == server \in {"running", "closing"}

(* ---------------- the executor runTask ---------------- *)
CancelledStepPrevious(t) == currentStep[t] - 1

CancelledStepZero(t) == 0

\* the step the cancelled notification carries (line 307)
CancelledStep(t) == currentStep[t]

TerminalEventsBoth(t, steps) ==
  <<Event("completion", steps)>> \o
  (IF cancelled[t] THEN <<Event("cancelled", CancelledStep(t))>> ELSE << >>)

TerminalEventsCompletion(t, steps) == <<Event("completion", steps)>>

TerminalEventsNone(t, steps) == << >>

\* the notification sent once the loop has been left (lines 277-315)
TerminalEvents(t, steps) ==
  IF ~cancelled[t]
  THEN <<Event("completion", steps)>>
  ELSE <<Event("cancelled", CancelledStep(t))>>

RegistryKept(reg, id) == reg

\* runningTasks.delete(taskId) of the finally block (line 337)
RegistryAfterFinally(reg, id) == reg \ {id}

\* the finally block: the entry stored under the executor's identifier is
\* deleted and the executor has ended
Finally(t) ==
  LET id == taskId[t]
      reg == RegistryAfterFinally(runningTasks, id)
      gone == id \in runningTasks /\ id \notin reg
  IN  /\ runningTasks' = reg
      /\ entry' = [entry EXCEPT ![id] = IF gone THEN 0 ELSE @]
      /\ removed' = [s \in TaskIds |->
                       IF gone /\ entry[id] = s THEN removed[s] + 1 ELSE removed[s]]
      /\ pc' = [pc EXCEPT ![t] = "done"]

\* the loop has been left with the notifications evs sent so far
LeaveLoop(t, steps, evs) ==
  /\ events' = [events EXCEPT ![t] = evs \o TerminalEvents(t, steps)]
  /\ Finally(t)
  /\ UNCHANGED <<i, currentStep, taskInfo>>

NextIterationUnchecked(t, steps, evs, n) ==
  IF n <= steps
  THEN /\ i' = [i EXCEPT ![t] = n]
       /\ currentStep' = [currentStep EXCEPT ![t] = n]
       /\ taskInfo' = [taskInfo EXCEPT ![t].currentStep = n]
       /\ pc' = [pc EXCEPT ![t] = "delay"]
       /\ events' = [events EXCEPT ![t] = evs]
       /\ UNCHANGED <<runningTasks, entry, removed>>
  ELSE LeaveLoop(t, steps, evs)

\* the loop condition of line 176 evaluated with i = n, and lines 177-181 when it holds
NextIteration(t, steps, evs, n) ==
  IF n <= steps /\ ~cancelled[t]
  THEN /\ i' = [i EXCEPT ![t] = n]
       /\ currentStep' = [currentStep EXCEPT ![t] = n]
       /\ taskInfo' = [taskInfo EXCEPT ![t].currentStep = n]
       /\ pc' = [pc EXCEPT ![t] = "delay"]
       /\ events' = [events EXCEPT ![t] = evs]
       /\ UNCHANGED <<runningTasks, entry, removed>>
  ELSE LeaveLoop(t, steps, evs)

NoBreakAfterDelay(t) == FALSE

\* the check of line 183
BreakAfterDelay(t) == cancelled[t]

SamplingDueAlways(t) == config[t].enableSampling

\* the condition of line 211
SamplingDue(t) ==
  config[t].enableSampling /\ i[t] % config[t].notificationInterval = 0

NeverSuspended == FALSE

\* a start handler is suspended at the await of line 80: its continuation is a
\* microtask, and no timer or inbound reply is dispatched before it has run
HandlerSuspended == starting # {}

TimerDueAlsoAwaiting(t) == pc[t] \in {"delay", "sampling"}

TimerDueAlone(t) == pc[t] = "delay" /\ \A u \in TaskIds \ {t} : pc[u] # "sampling"

\* the timer the executor set at line 181 is pending; each executor has its own
TimerDue(t) == pc[t] = "delay"

SkipAwaitCreateMessage(t, evs) == NextIteration(t, config[t].steps, evs, i[t] + 1)

\* the await of line 215: the executor stays at step i until the request settles
AwaitCreateMessage(t, evs) ==
  /\ pc' = [pc EXCEPT ![t] = "sampling"]
  /\ events' = [events EXCEPT ![t] = evs]
  /\ UNCHANGED <<i, currentStep, taskInfo, runningTasks, entry, removed>>

\* the timer of line 181 fires: lines 183-228 up to the next await
DelayElapses(t) ==
  /\ TimerDue(t)
  /\ ~HandlerSuspended
  /\ Alive
  /\ IF BreakAfterDelay(t)
     THEN LeaveLoop(t, config[t].steps, events[t]) /\ UNCHANGED <<pending, requested>>
     ELSE LET evs == Append(events[t], Event("progress", i[t])) IN
          IF SamplingDue(t)
          THEN /\ pending' = [pending EXCEPT ![t] = @ + 1]
               /\ requested' = [requested EXCEPT ![t] = Append(@, i[t])]
               /\ AwaitCreateMessage(t, evs)
          ELSE /\ NextIteration(t, config[t].steps, evs, i[t] + 1)
               /\ UNCHANGED <<pending, requested>>
  /\ response' = NoResponse
  /\ UNCHANGED <<config, cancelled, starting, nextId, cancelPoint, taskId, server>>
  /\ UNCHANGED <<client, longRunningTool, cli>>

SettledEventsOnReply(t, ok) ==
  IF ok THEN <<Event("sampling_response", i[t])>> ELSE << >>

\* the notification sent once the request has settled: sampling_response
\* (lines 239-254) or sampling_error (lines 257-272), for step i
SettledEvents(t, ok) ==
  <<Event(IF ok THEN "sampling_response" ELSE "sampling_error", i[t])>>

SamplingFailureEscapes == FALSE

\* the try of line 212 encloses the await of line 215: a rejected request is
\* handled by the catch of line 255
SamplingFailureCaught == TRUE

\* server.createMessage settles: lines 230-274, then the next iteration; a
\* rejection the inner catch did not handle would reach the catch of line 316
SamplingResolves(t, ok) ==
  /\ pc[t] = "sampling"
  /\ ~HandlerSuspended
  /\ Alive
  /\ pending' = [pending EXCEPT ![t] = @ - 1]
  /\ UNCHANGED requested
  /\ IF ok \/ SamplingFailureCaught
     THEN LET evs == events[t] \o SettledEvents(t, ok)
          IN  NextIteration(t, config[t].steps, evs, i[t] + 1)
     ELSE /\ events' = [events EXCEPT ![t] = Append(@, Event("error", currentStep[t]))]
          /\ Finally(t)
          /\ UNCHANGED <<i, currentStep, taskInfo>>
  /\ response' = NoResponse
  /\ UNCHANGED <<config, cancelled, starting, nextId, cancelPoint, taskId, server>>
  /\ UNCHANGED <<client, longRunningTool, cli>>

ErrorStepZero(t) == 0

\* the step the error notification carries (line 327)
ErrorStep(t) == currentStep[t]

\* an exception reaches the catch block of lines 316-334 while the executor
\* is inside the loop: error notification, then finally
Fail(t) ==
  /\ pc[t] = "delay"
  /\ ~HandlerSuspended
  /\ Accepting
  /\ events' = [events EXCEPT ![t] = Append(@, Event("error", ErrorStep(t)))]
  /\ Finally(t)
  /\ response' = NoResponse
  /\ UNCHANGED <<taskInfo, config, cancelled, currentStep, i, starting, nextId,
                 cancelPoint, taskId, pending, requested, server>>
  /\ UNCHANGED <<client, longRunningTool, cli>>

\* a promise returned by server.notification rejects.  No notification call of
\* runTask is awaited or given a rejection handler (the try of line 189 only
\* sees a synchronous throw), and no unhandledRejection listener is installed:
\* the runtime either ends the process (the default of the Node.js versions
\* the repository requires) or only prints a warning
TransmitFails(t) ==
  /\ events[t] # << >>
  /\ ~HandlerSuspended
  /\ Accepting
  /\ \E fatal \in BOOLEAN : server' = IF fatal THEN "crashed" ELSE server
  /\ response' = NoResponse
  /\ UNCHANGED <<runningTasks, taskInfo, config, cancelled, currentStep, i, pc, events,
                 starting, nextId, removed, cancelPoint, taskId, entry, pending, requested>>
  /\ UNCHANGED <<client, longRunningTool, cli>>

(* ---------------- the CallTool handler ---------------- *)
RECURSIVE WorkOf(_)
\* work configured by the executors 1..n
WorkOf(n) == IF n = 0 THEN 0 ELSE 1 + config[n].steps + WorkOf(n - 1)

\* lines 76-80: parse, generate the identifier id, run startLongRunningTask
\* (the executor up to its first await), suspend at line 80
StartTaskSegment(args, id) ==
  /\ ~HandlerSuspended
  /\ Accepting
  /\ ValidArgs(args)
  /\ nextId <= MaxTasks
  /\ LET t == nextId
         cfg == ParsedConfig(args)
     IN  /\ config' = [config EXCEPT ![t] = cfg]
         /\ taskId' = [taskId EXCEPT ![t] = id]
         /\ NextIteration(t, cfg.steps,
                          <<Event("start", 0)>>, 1)
         /\ starting' = starting \cup {t}
  /\ nextId' = nextId + 1
  /\ response' = NoResponse
  /\ UNCHANGED <<cancelled, cancelPoint, pending, requested, server>>
  /\ UNCHANGED <<client, longRunningTool, cli>>

\* start_long_running_task with arguments within the work the model explores
StartTaskCall(args, id) ==
  /\ ValidArgs(args)
  /\ WorkOf(nextId - 1) + 1 + args.steps <= MaxWork
  /\ StartTaskSegment(args, id)

\* the arguments of a task with the largest number of steps the schema accepts
LongArgs ==
  ("steps" :> MaxStepsAllowed) @@ ("delayMs" :> MinDelayMs) @@ ("enableSampling" :> FALSE)

\* start_long_running_task {steps: 1000} as the first call the server receives
StartLongTask ==
  /\ nextId = 1
  /\ StartTaskSegment(LongArgs, nextId)

\* runningTasks.set(taskId, taskInfo) of line 81: the value stored under the
\* key is replaced
Register(e, id, t) == [e EXCEPT ![id] = t]

KeysUnchanged(reg, id) == reg

\* the keys of the Map after runningTasks.set(taskId, taskInfo) of line 81
KeysAfterSet(reg, id) == reg \cup {id}

\* start_long_running_task, lines 81-90: register the TaskInfo, acknowledge
StartTaskReturn(t) ==
  /\ t \in starting
  /\ starting' = starting \ {t}
  /\ runningTasks' = KeysAfterSet(runningTasks, taskId[t])
  /\ entry' = Register(entry, taskId[t], t)
  /\ response' = StartedResult(taskId[t], config[t].steps)
  /\ UNCHANGED <<taskInfo, config, cancelled, currentStep, i, pc, events, nextId,
                 removed, cancelPoint, taskId, pending, requested, server>>
  /\ UNCHANGED <<client, longRunningTool, cli>>

\* start_long_running_task with arguments the schema rejects: line 76 throws
\* and the catch of line 126 builds the result; every rejected arguments object
\* leads to the same state
StartTaskRejected ==
  /\ ~HandlerSuspended
  /\ Accepting
  /\ (\E args \in StartArgs : ~ValidArgs(args))
  /\ response' = ErrorResult("start_long_running_task")
  /\ UNCHANGED <<runningTasks, taskInfo, config, cancelled, currentStep, i, pc, events,
                 starting, nextId, removed, cancelPoint, taskId, entry, pending, requested, server>>
  /\ UNCHANGED <<client, longRunningTool, cli>>

\* a call for a tool the switch does not know: line 124 throws
CallToolError(tool) ==
  /\ ~HandlerSuspended
  /\ Accepting
  /\ response' = ErrorResult(tool)
  /\ UNCHANGED <<runningTasks, taskInfo, config, cancelled, currentStep, i, pc, events,
                 starting, nextId, removed, cancelPoint, taskId, entry, pending, requested, server>>
  /\ UNCHANGED <<client, longRunningTool, cli>>

cancelNothing(c, t) == c

cancelAll(c, t) == [u \in DOMAIN c |-> TRUE]

\* taskInfo.cancel (lines 147-149): sets the closure variable of its executor
cancel(c, t) == [c EXCEPT ![t] = TRUE]

KeysAfterCancelKept(reg, id) == reg

\* the keys of the Map after runningTasks.delete(taskId) of line 100
KeysAfterDelete(reg, id) == reg \ {id}

LookupNever(id) == FALSE

\* runningTasks.get(taskId) of line 95 finds an entry
Lookup(id) == id \in runningTasks

\* cancel_task, lines 94-120
CancelTask(id) ==
  /\ ~HandlerSuspended
  /\ Accepting
  /\ IF Lookup(id)
     THEN LET t == entry[id] IN
          /\ cancelled' = cancel(cancelled, t)
          /\ taskInfo' = [taskInfo EXCEPT ![t].cancelled = TRUE]
          /\ runningTasks' = KeysAfterDelete(runningTasks, id)
          /\ entry' = [entry EXCEPT ![id] = IF id \in KeysAfterDelete(runningTasks, id) THEN @ ELSE 0]
          /\ removed' = [removed EXCEPT ![t] = IF id \in KeysAfterDelete(runningTasks, id) THEN @ ELSE @ + 1]
          /\ cancelPoint' = [cancelPoint EXCEPT ![t] =
                               IF pc[t] = "delay" THEN i[t] ELSE i[t] + 1]
          /\ response' = CancelledResult(id)
          /\ UNCHANGED <<config, currentStep, i, pc, events, starting, nextId, taskId,
                         pending, requested, server>>
     ELSE /\ response' = NotFoundResult(id)
          /\ UNCHANGED <<runningTasks, taskInfo, config, cancelled, currentStep, i, pc,
                         events, starting, nextId, removed, cancelPoint, taskId, entry,
                         pending, requested, server>>
  /\ UNCHANGED <<client, longRunningTool, cli>>

(* ---------------- shutdown ---------------- *)
\* the TaskInfo objects the Map holds
Registered == {entry[id] : id \in runningTasks}

cancelNone(c, S) == c

\* task.cancel() for each entry (lines 357-358)
cancelEach(c, S) == [t \in DOMAIN c |-> c[t] \/ t \in S]

\* cleanup, lines 355-362: cancel every entry, flag it, clear the Map
cleanup ==
  /\ cancelled' = cancelEach(cancelled, Registered)
  /\ taskInfo' = [t \in TaskIds |->
                    IF t \in Registered THEN [taskInfo[t] EXCEPT !.cancelled = TRUE]
                    ELSE taskInfo[t]]
  /\ runningTasks' = {}
  /\ entry' = [id \in TaskIds |-> 0]
  /\ removed' = [t \in TaskIds |-> IF t \in Registered THEN removed[t] + 1 ELSE removed[t]]

\* the SIGINT handler up to its await of server.close() (lines 364-366):
\* cleanup has no await of its own, and closing the transport stops the reading
\* of requests
Sigint ==
  /\ Accepting
  /\ ~HandlerSuspended
  /\ cleanup
  /\ server' = "closing"
  /\ response' = NoResponse
  /\ UNCHANGED <<config, currentStep, i, pc, events, starting, nextId, cancelPoint,
                 taskId, pending, requested>>
  /\ UNCHANGED <<client, longRunningTool, cli>>

\* process.exit(0) of line 367
Exit ==
  /\ server = "closing"
  /\ server' = "exited"
  /\ response' = NoResponse
  /\ UNCHANGED <<runningTasks, taskInfo, config, cancelled, currentStep, i, pc, events,
                 starting, nextId, removed, cancelPoint, taskId, entry, pending, requested>>
  /\ UNCHANGED <<client, longRunningTool, cli>>

\* SIGTERM: index.ts installs a listener for SIGINT only (line 364), so the
\* default disposition ends the process at once; no line of the program runs
Sigterm ==
  /\ Alive
  /\ server' = "killed"
  /\ response' = NoResponse
  /\ UNCHANGED <<runningTasks, taskInfo, config, cancelled, currentStep, i, pc, events,
                 starting, nextId, removed, cancelPoint, taskId, entry, pending,
                 requested>>
  /\ UNCHANGED <<client, longRunningTool, cli>>

(* ---------------- the client's handlers ---------------- *)
\* notifications and sampling requests dispatched to the client so far
Dispatched(c) ==
  LET RECURSIVE Sum(_)
      Sum(S) == IF S = {} THEN 0
                ELSE LET k == CHOOSE x \in S : TRUE IN c.handled[k] + Sum(S \ {k})
  IN  c.sampled + Sum(NotificationTypes)

\* fallbackNotificationHandler and handleCustomNotification, lines 51-91, for a
\* notification with the given method, with or without progress and step
FallbackNotificationHandler(method, withProgress) ==
  /\ Dispatched(client) < MaxClientEvents
  /\ IF IsNotificationMethod(method)
     THEN LET type == TypeOf(method)
              count == OrZeroPlusOne(Property(client.notificationCount, type))
              shown == /\ DisplayCallReturns("showNotification")
                       /\ withProgress => DisplayCallReturns("showProgress")
          IN  client' = [client EXCEPT
                !.notificationCount = (type :> count) @@ @,
                !.handled[type] = @ + 1,
                !.outcome = IF shown THEN Handled ELSE Thrown("notification")]
     ELSE client' = [client EXCEPT !.outcome = Handled]
  /\ response' = NoResponse
  /\ UNCHANGED <<runningTasks, taskInfo, config, cancelled, currentStep, i, pc, events,
                 starting, nextId, removed, cancelPoint, taskId, entry, pending,
                 requested, server, longRunningTool, cli>>

\* handleSamplingRequest, lines 96-126
HandleSamplingRequest(request) ==
  /\ Dispatched(client) < MaxClientEvents
  /\ LET count == client.samplingCount + 1
         text == EchoResponse(count, ContentOf(request))
         shown == /\ DisplayCallReturns("showSamplingRequest")
                  /\ DisplayCallReturns("showSamplingResponse")
     IN  client' = [client EXCEPT
           !.samplingCount = count,
           !.samplingResponses = Append(@, text),
           !.sampled = @ + 1,
           !.outcome = IF shown THEN SamplingReply(text) ELSE Thrown("sampling")]
  /\ response' = NoResponse
  /\ UNCHANGED <<runningTasks, taskInfo, config, cancelled, currentStep, i, pc, events,
                 starting, nextId, removed, cancelPoint, taskId, entry, pending,
                 requested, server, longRunningTool, cli>>

\* getNotificationStatistics, lines 207-209: a copy of the own properties
getNotificationStatistics == client.notificationCount

\* Math.round of a non-negative quotient
MathRound(num, den) == (2 * num + den) \div (2 * den)

\* getSamplingStatistics, lines 214-223
getSamplingStatistics ==
  LET RECURSIVE SumLen(_)
      SumLen(s) == IF s = << >> THEN 0 ELSE Len(Head(s)) + SumLen(Tail(s))
      responses == client.samplingResponses
  IN  [totalRequests |-> client.samplingCount,
       averageResponseLength |->
         IF Len(responses) > 0 THEN MathRound(SumLen(responses), Len(responses)) ELSE 0]

\* execution parameters the command line passes to executeLongRunningProcess
ExecutionParams ==
  [steps : 1..MaxSteps, interval : 1..MaxInterval, delay : {MinDelayMs}, sampling : BOOLEAN]

\* the arguments object of lines 176-181
CallArguments(params) ==
  ("steps" :> params.steps) @@ ("notificationInterval" :> params.interval)
    @@ ("delayMs" :> params.delay) @@ ("enableSampling" :> params.sampling)

\* executeLongRunningProcess, lines 167-191, against the server: the tools/call
\* request carries TOOL_NAMES.EXECUTE_LONG_PROCESS and the server's switch
\* selects the case
ExecuteLongRunningProcess(params) ==
  LET name == EXECUTE_LONG_PROCESS
      args == CallArguments(params)
  IN  /\ DisplayCallReturns("showExecutionParams")
      /\ DisplayCallReturns("showExecutionStart")
      /\ CASE ToolCase(name) = "start_long_running_task" -> StartTaskCall(args, nextId)
           [] ToolCase(name) = "cancel_task" -> CallToolError(name)
           [] OTHER -> CallToolError(name)

(* ---------------- the consolidated server (long-running-task, cancel-task) ---------------- *)
\* the step loop of processTask from its condition with step = n up to the
\* next await: the progress notification is sent at the head of the step,
\* before the delay; once the loop is left the entry is deleted and the
\* cancelled or the completion notification is sent
processTaskIteration(t, cfg, evs, n) ==
  IF n <= cfg.steps /\ ~cancelled[t]
  THEN /\ i' = [i EXCEPT ![t] = n]
       /\ currentStep' = [currentStep EXCEPT ![t] = n]
       /\ taskInfo' = [taskInfo EXCEPT ![t] =
                         [currentStep |-> n, totalSteps |-> cfg.steps, cancelled |-> @.cancelled]]
       /\ IF n % cfg.notificationInterval = 0
          THEN /\ events' = [events EXCEPT ![t] = Append(evs, Event("progress", n))]
               /\ pc' = [pc EXCEPT ![t] = "notify"]
          ELSE /\ events' = [events EXCEPT ![t] = evs]
               /\ pc' = [pc EXCEPT ![t] = "delay"]
       /\ UNCHANGED <<runningTasks, entry, removed>>
  ELSE /\ events' = [events EXCEPT ![t] =
                       Append(evs, IF cancelled[t]
                                   THEN Event("cancelled", currentStep[t])
                                   ELSE Event("completion", cfg.steps))]
       /\ Finally(t)
       /\ UNCHANGED <<i, currentStep, taskInfo>>

\* handleLongRunningTask: generate the identifier, register the TaskInfo, run
\* processTask up to its first await and return the acknowledgement
handleLongRunningTask(args) ==
  /\ ValidArgs(args)
  /\ nextId <= MaxTasks
  /\ WorkOf(nextId - 1) + 1 + args.steps <= MaxWork
  /\ LET t == nextId
         cfg == ParsedConfig(args)
     IN  /\ config' = [config EXCEPT ![t] = cfg]
         /\ taskId' = [taskId EXCEPT ![t] = t]
         /\ runningTasks' = runningTasks \cup {t}
         /\ entry' = [entry EXCEPT ![t] = t]
         /\ i' = [i EXCEPT ![t] = 1]
         /\ currentStep' = [currentStep EXCEPT ![t] = 1]
         /\ taskInfo' = [taskInfo EXCEPT ![t] =
                           [currentStep |-> 1, totalSteps |-> cfg.steps, cancelled |-> FALSE]]
         /\ IF 1 % cfg.notificationInterval = 0
            THEN /\ events' = [events EXCEPT ![t] = <<Event("progress", 1)>>]
                 /\ pc' = [pc EXCEPT ![t] = "notify"]
            ELSE /\ events' = [events EXCEPT ![t] = << >>]
                 /\ pc' = [pc EXCEPT ![t] = "delay"]
         /\ response' = [tool |-> EXECUTE_LONG_PROCESS, kind |-> "started", isError |-> FALSE,
                         taskId |-> t, steps |-> 0]
  /\ nextId' = nextId + 1
  /\ UNCHANGED <<cancelled, removed, cancelPoint, starting, pending, requested, server,
                 client, longRunningTool, cli>>

\* the awaited progress notification has been handed to the transport: the
\* executor sets the timer of the step's delay
processTaskNotified(t) ==
  /\ pc[t] = "notify"
  /\ pc' = [pc EXCEPT ![t] = "delay"]
  /\ response' = NoResponse
  /\ UNCHANGED <<runningTasks, taskInfo, config, cancelled, currentStep, i, events,
                 starting, nextId, removed, cancelPoint, taskId, entry, pending, requested,
                 server, client, longRunningTool, cli>>

\* the timer of the step's delay fires: step++, the loop condition and the
\* next iteration up to its await, or the end of the task
processTaskDelayElapses(t) ==
  /\ pc[t] = "delay"
  /\ processTaskIteration(t, config[t], events[t], i[t] + 1)
  /\ response' = NoResponse
  /\ UNCHANGED <<config, cancelled, starting, nextId, cancelPoint, taskId, pending,
                 requested, server, client, longRunningTool, cli>>

\* handleCancelTask
handleCancelTask(id) ==
  /\ IF id \in runningTasks
     THEN LET t == entry[id] IN
          /\ cancelled' = [cancelled EXCEPT ![t] = TRUE]
          /\ taskInfo' = [taskInfo EXCEPT ![t].cancelled = TRUE]
          /\ runningTasks' = runningTasks \ {id}
          /\ entry' = [entry EXCEPT ![id] = 0]
          /\ removed' = [removed EXCEPT ![t] = @ + 1]
          /\ cancelPoint' = [cancelPoint EXCEPT ![t] = i[t]]
          /\ response' = [tool |-> "cancel-task", kind |-> "cancelled", isError |-> FALSE,
                          taskId |-> id, steps |-> 0]
     ELSE /\ response' = [tool |-> "cancel-task", kind |-> "notfound", isError |-> TRUE,
                          taskId |-> id, steps |-> 0]
          /\ UNCHANGED <<runningTasks, taskInfo, cancelled, removed, cancelPoint, entry>>
  /\ UNCHANGED <<config, currentStep, i, pc, events, starting, nextId, taskId, pending,
                 requested, server, client, longRunningTool, cli>>

(* ---------------- the class-based LongRunningTool ---------------- *)
\* parameters LongRunningToolParamsSchema accepts; the sampling block runs
\* every second notification interval, so the runs are twice as long as the
\* tasks of the server model
ToolParams ==
  [steps : MinSteps..(2 * MaxSteps), notificationInterval : MinInterval..MaxInterval,
   delayMs : {MinDelayMs}, enableSampling : BOOLEAN]

Max(a, b) == IF a >= b THEN a ELSE b

\* the condition of the sampling block of execute
SamplingStep(params, step) ==
  params.enableSampling /\ step % Max(params.notificationInterval * 2, 1) = 0

\* the end of an iteration of execute: completedSteps = step, then the next
\* delay, or the completion notification and the returned result
EndOfStep(tl) ==
  LET done == [tl EXCEPT !.completedSteps = tl.step]
  IN  IF tl.step + 1 <= tl.params.steps
      THEN [done EXCEPT !.step = tl.step + 1, !.pc = "delay"]
      ELSE [done EXCEPT
              !.pc = "done",
              !.completion = Counters(done.completedSteps, done.notificationsSent,
                                      done.samplingRequests),
              !.notificationsSent = done.notificationsSent + 1,
              !.result = Counters(done.completedSteps, done.notificationsSent + 1,
                                  done.samplingRequests)]

\* execute up to the first delay: the status notification
execute(params) ==
  /\ longRunningTool.pc = "idle"
  /\ longRunningTool' = [NoTool EXCEPT !.pc = "delay", !.params = params, !.step = 1,
                            !.notificationsSent = 1]
  /\ UNCHANGED <<runningTasks, taskInfo, config, cancelled, currentStep, i, pc, events,
                 starting, nextId, response, removed, cancelPoint, taskId, entry, pending,
                 requested, server, client, cli>>

\* the delay of the step has elapsed: the progress notification at the
\* interval, then the sampling request or the end of the step
toolDelayElapses ==
  /\ longRunningTool.pc = "delay"
  /\ LET sent == IF longRunningTool.step % longRunningTool.params.notificationInterval = 0
                 THEN longRunningTool.notificationsSent + 1 ELSE longRunningTool.notificationsSent
         notified == [longRunningTool EXCEPT !.notificationsSent = sent]
     IN  longRunningTool' = IF SamplingStep(longRunningTool.params, longRunningTool.step)
                 THEN [notified EXCEPT !.pc = "sampling", !.issued = @ + 1]
                 ELSE EndOfStep(notified)
  /\ UNCHANGED <<runningTasks, taskInfo, config, cancelled, currentStep, i, pc, events,
                 starting, nextId, response, removed, cancelPoint, taskId, entry, pending,
                 requested, server, client, cli>>

\* requestSampling returns: a SamplingResponse when the peer replied, null when
\* the request failed (its catch block); execute counts the request when the
\* value is not null
requestSampling(replied) ==
  /\ longRunningTool.pc = "sampling"
  /\ longRunningTool' =
       EndOfStep([longRunningTool EXCEPT !.samplingRequests = IF replied THEN @ + 1 ELSE @])
  /\ UNCHANGED <<runningTasks, taskInfo, config, cancelled, currentStep, i, pc, events,
                 starting, nextId, response, removed, cancelPoint, taskId, entry, pending,
                 requested, server, client, cli>>

(* ---------------- the client's main ---------------- *)
\* main up to its first await: parseCliArgs ends the process or returns the
\* arguments, and main starts the server; the ExecutionParams main builds from
\* the arguments once it is connected are kept from here on
main(argv) ==
  /\ cli.pc = "start"
  /\ LET args == parseCliArgs(argv)
     IN  cli' = IF args.exit.exited
                THEN [cli EXCEPT !.pc = "exited", !.argv = argv, !.exit = args.exit]
                ELSE [cli EXCEPT !.pc = "connecting", !.argv = argv,
                                 !.params = executionParams(args)]
  /\ UNCHANGED <<runningTasks, taskInfo, config, cancelled, currentStep, i, pc, events,
                 starting, nextId, response, removed, cancelPoint, taskId, entry, pending,
                 requested, server, client, longRunningTool>>

\* startServer and client.connect have settled: when they succeeded
\* executeLongRunningProcess sends the tools/call request, whose arguments are
\* CallArguments(cli.params); when one of them failed the catch block of main
\* ends the process
mainConnected(connected) ==
  /\ cli.pc = "connecting"
  /\ cli' = IF connected
            THEN [cli EXCEPT !.pc = "executing"]
            ELSE [cli EXCEPT !.pc = "exited", !.exit = ProcessExit(1, "Client error")]
  /\ UNCHANGED <<runningTasks, taskInfo, config, cancelled, currentStep, i, pc, events,
                 starting, nextId, response, removed, cancelPoint, taskId, entry, pending,
                 requested, server, client, longRunningTool>>

(* ---------------- specifications ---------------- *)
Next ==
  \/ \E args \in StartArgs : StartTaskCall(args, nextId)
  \/ \E t \in TaskIds : StartTaskReturn(t)
  \/ StartTaskRejected
  \/ \E tool \in OtherToolNames : CallToolError(tool)
  \/ \E id \in CancelIds : CancelTask(id)
  \/ \E t \in TaskIds : DelayElapses(t)
  \/ \E t \in TaskIds, ok \in BOOLEAN : SamplingResolves(t, ok)

\* the server as it runs: no statement of runTask outside its inner try blocks
\* throws (server.notification and server.createMessage return promises; the
\* first is not awaited, the second is awaited inside the try of line 212),
\* every notification is transmitted, every generated identifier is new and no
\* signal arrives
Spec == Init /\ [][Next]_vars

\* the server with an exception raised inside the step loop, which takes the
\* executor through the catch block of line 316
NextFault ==
  \/ Next
  \/ \E t \in TaskIds : Fail(t)

\* a callback of the server that is due: the continuation of a suspended start
\* handler (a microtask), a timer that has been set, or the settling of a
\* sampling request, with a reply or with a failure
Callback ==
  \E t \in TaskIds :
    \/ StartTaskReturn(t)
    \/ DelayElapses(t)
    \/ \E ok \in BOOLEAN : SamplingResolves(t, ok)

\* the server with its scheduling: the event loop does not leave due callbacks
\* waiting for ever while requests keep arriving
Fairness == WF_vars(Callback)

\* the requests that change a task: accepted start calls and cancel calls
\* that find their task
NextFair ==
  \/ \E args \in AcceptableArgs : StartTaskCall(args, nextId)
  \/ \E id \in TaskIds : Lookup(id) /\ CancelTask(id)
  \/ Callback

SpecFair == Init /\ [][NextFair]_vars /\ Fairness

SpecFault == Init /\ [][NextFault]_vars

\* the server with the interrupt and termination signals
NextShutdown ==
  \/ Next
  \/ Sigint
  \/ Exit
  \/ Sigterm

SpecShutdown == Init /\ [][NextShutdown]_vars

\* the server with identifiers that repeat: the time stamp and the random
\* suffix of line 77 come out as they did for an earlier call
NextCollide ==
  \/ Next
  \/ \E args \in StartArgs, t \in TaskIds : t < nextId /\ StartTaskCall(args, taskId[t])

SpecCollide == Init /\ [][NextCollide]_vars

\* the server with notifications whose transmission fails
NextTransport ==
  \/ Next
  \/ \E t \in TaskIds : TransmitFails(t)

SpecTransport == Init /\ [][NextTransport]_vars

\* the server with a first task of 1000 steps
NextLong ==
  \/ Next
  \/ StartLongTask

SpecLong == Init /\ [][NextLong]_vars

\* the client: notifications and sampling requests reach its handlers, and it
\* calls the server's tool
NextClient ==
  \/ \E method \in Methods, withProgress \in BOOLEAN :
       FallbackNotificationHandler(method, withProgress)
  \/ \E request \in SamplingRequests : HandleSamplingRequest(request)
  \/ \E params \in ExecutionParams : ExecuteLongRunningProcess(params)

SpecClient == Init /\ [][NextClient]_vars

\* the consolidated server: long-running-task and cancel-task calls and the
\* continuations of processTask
NextConsolidated ==
  \/ \E args \in AcceptableArgs : handleLongRunningTask(args)
  \/ \E id \in CancelIds : handleCancelTask(id)
  \/ \E t \in TaskIds : processTaskNotified(t)
  \/ \E t \in TaskIds : processTaskDelayElapses(t)

SpecConsolidated == Init /\ [][NextConsolidated]_vars

\* the class-based tool: one run of execute
NextTool ==
  \/ \E params \in ToolParams : execute(params)
  \/ toolDelayElapses
  \/ \E replied \in BOOLEAN : requestSampling(replied)

SpecTool == Init /\ [][NextTool]_vars

\* the client's command line: one run of main
NextCli ==
  \/ \E argv \in Argv : main(argv)
  \/ \E connected \in BOOLEAN : mainConnected(connected)

SpecCli == Init /\ [][NextCli]_vars

TypeOK ==
  /\ runningTasks \subseteq TaskIds
  /\ runningTasks = {id \in TaskIds : entry[id] # 0}
  /\ starting \subseteq TaskIds
  /\ nextId \in 1..(MaxTasks + 1)
  /\ \A t \in TaskIds : pc[t] \in {"unborn", "delay", "sampling", "notify", "done"}
  /\ \A t \in TaskIds : taskId[t] \in 0..MaxTasks /\ entry[t] \in 0..MaxTasks
  /\ \A t \in TaskIds : pending[t] \in 0..1
  /\ server \in {"running", "closing", "exited", "crashed", "killed"}
  /\ client.samplingCount = Len(client.samplingResponses)
  /\ Dispatched(client) \in 0..MaxClientEvents
  /\ cli.pc \in {"start", "connecting", "executing", "exited"}
  /\ Len(cli.argv) <= MaxArgs

(* ---------------- properties ---------------- *)
Indices(evs, types) == {k \in DOMAIN evs : evs[k].type \in types}

StepsOfType(evs, type) == {evs[k].step : k \in Indices(evs, {type})}

Count(evs, types) == Cardinality(Indices(evs, types))

Last(evs) == evs[Len(evs)]

\* the task has emitted a terminal event
Terminated(t) == Indices(events[t], TerminalTypes) # {}

\* cancel_task has succeeded for the task
CancelSucceeded(t) == taskInfo[t].cancelled

\* every variable but the response
core == <<runningTasks, taskInfo, config, cancelled, currentStep, i, pc, events,
          starting, nextId, removed, cancelPoint, taskId, entry, pending, requested,
          server>>

IntervalSteps(t) ==
  {s \in 1..config[t].steps : s % config[t].notificationInterval = 0}

\* C1: a task that has run to its end and was never cancelled has emitted exactly
\* one start event, one progress event for each step that is a multiple of
\* notificationInterval and for no other step, and exactly one terminal event,
\* a completion carrying step = steps.
C1_ProgressOnlyAtInterval ==
  \A t \in TaskIds :
    (pc[t] = "done" /\ ~CancelSucceeded(t)) =>
      /\ Count(events[t], {"start"}) = 1
      /\ StepsOfType(events[t], "progress") = IntervalSteps(t)
      /\ Count(events[t], {"progress"}) = Cardinality(IntervalSteps(t))
      /\ Count(events[t], TerminalTypes) = 1
      /\ Last(events[t]) = Event("completion", config[t].steps)

\* C2: the events of a task carry non-decreasing steps, the start event is the
\* first event and so precedes every progress event, and a terminal event is
\* the last event of the task: nothing is emitted after it.
C2_EventOrder ==
  \A t \in TaskIds :
    LET evs == events[t] IN
      /\ \A j, k \in DOMAIN evs : j < k => evs[j].step <= evs[k].step
      /\ \A k \in DOMAIN evs : (evs[k].type = "start") <=> (k = 1)
      /\ \A k \in DOMAIN evs : evs[k].type \in TerminalTypes => k = Len(evs)

C2_Witness ==
  \E t \in TaskIds :
    /\ pc[t] = "done"
    /\ Last(events[t]).type = "cancelled"
    /\ Count(events[t], {"progress"}) >= 1
    /\ Count(events[t], {"sampling_response", "sampling_error"}) >= 1

\* C3: a task never has more than one terminal event, and once it has one its
\* events (hence its terminal kind), its step counter and its ended executor
\* never change again.
C3_TerminalOnceAndAbsorbing ==
  /\ [](\A t \in TaskIds : Count(events[t], TerminalTypes) <= 1)
  /\ [][\A t \in TaskIds :
          Terminated(t) =>
            /\ events'[t] = events[t]
            /\ currentStep'[t] = currentStep[t]
            /\ taskInfo'[t].currentStep = taskInfo[t].currentStep
            /\ pc[t] = "done" /\ pc'[t] = "done"]_vars

C3_Witness ==
  \E t, u \in TaskIds :
    /\ Terminated(t) /\ Last(events[t]).type = "cancelled"
    /\ Terminated(u) /\ Last(events[u]).type = "completion"

\* C4: once cancel_task has succeeded before the delay of step N has elapsed
\* (cancelPoint = N), the task has no progress event with step >= N, and when
\* its executor has ended its terminal event is the cancelled event.
C4_NoProgressAfterCancel ==
  \A t \in TaskIds :
    cancelPoint[t] > 0 =>
      /\ \A k \in Indices(events[t], {"progress"}) : events[t][k].step < cancelPoint[t]
      /\ pc[t] = "done" =>
           /\ Last(events[t]).type = "cancelled"
           /\ Count(events[t], TerminalTypes) = 1

C4_Witness ==
  \E t \in TaskIds :
    /\ cancelPoint[t] = 2
    /\ pc[t] = "done"
    /\ config[t].steps >= 2
    /\ StepsOfType(events[t], "progress") = {1}

\* C5: the cancelled event carries the last completed step: when the cancel
\* arrived before the delay of step N had elapsed, the event carries N - 1.
C5_CancelledCarriesLastCompletedStep ==
  \A t \in TaskIds :
    \A k \in Indices(events[t], {"cancelled"}) :
      events[t][k].step = cancelPoint[t] - 1

\* C6: a cancel_task call naming an identifier that was never issued, or whose
\* task has reached a terminal state, returns the not-found result, flagged as
\* an error, and changes nothing else: no event, registry, counter or flag.
C6_CancelUnknownIsNoOp ==
  [][\A id \in CancelIds :
       (/\ response'.tool = "cancel_task"
        /\ response'.taskId = id
        /\ (id \notin TaskIds \/ pc[id] = "unborn" \/ Terminated(id)))
       => (/\ response'.kind = "notfound"
           /\ response'.isError
           /\ UNCHANGED core)]_vars

C6_Witness ==
  /\ response.kind = "notfound"
  /\ response.taskId \in TaskIds
  /\ Terminated(response.taskId)
  /\ ~CancelSucceeded(response.taskId)
  /\ runningTasks # {}

\* C7: a cancel_task call naming a task present in the registry sets the task's
\* cancellation flag and removes its entry in that same step, and returns a
\* result that is not flagged as an error and differs from the not-found one.
C7_CancelRegistered ==
  [][\A id \in TaskIds :
       (/\ response'.tool = "cancel_task"
        /\ response'.taskId = id
        /\ id \in runningTasks)
       => (/\ cancelled'[id]
           /\ taskInfo'[id].cancelled
           /\ id \notin runningTasks'
           /\ response'.kind = "cancelled"
           /\ ~response'.isError
           /\ response' # NotFoundResult(id))]_vars

C7_Witness ==
  /\ response.kind = "cancelled"
  /\ cancelled[response.taskId]
  /\ pc[response.taskId] \in {"delay", "sampling"}
  /\ response.taskId \notin runningTasks

\* C8: a task that has emitted its terminal event is absent from the registry,
\* its entry has then been removed exactly once and is never removed more than
\* once, and an entry leaves the registry only through the cancel_task call
\* that names it or through its own executor's finally block.
C8_RemovedExactlyOnce ==
  /\ [](\A t \in TaskIds :
          /\ removed[t] <= 1
          /\ Terminated(t) => (t \notin runningTasks /\ removed[t] = 1))
  /\ [][\A t \in TaskIds :
          (t \in runningTasks /\ t \notin runningTasks') =>
             \/ response' = CancelledResult(t)
             \/ (pc[t] # "done" /\ pc'[t] = "done")]_vars

C8_Witness ==
  \E t, u \in TaskIds :
    /\ t # u
    /\ Terminated(t) /\ CancelSucceeded(t) /\ removed[t] = 1
    /\ u \in runningTasks

\* C9: in the state in which start_long_running_task returns, its result names
\* the identifier and the step count, and the task has emitted its start event
\* only: no progress and no terminal event, its executor waiting in a delay.
C9_AckBeforeSteps ==
  response.kind = "started" =>
    LET t == response.taskId IN
      /\ response.steps = config[t].steps
      /\ ~response.isError
      /\ events[t] = <<Event("start", 0)>>
      /\ pc[t] = "delay"

C9_Witness ==
  /\ response.kind = "started"
  /\ response.taskId \in runningTasks

\* C10: every accepted configuration is within the declared bounds, and a
\* start_long_running_task call that is rejected returns an error-flagged
\* result and changes nothing: no registry entry, no executor, no event.
C10_InvalidStartRejected ==
  /\ [](\A t \in TaskIds :
          pc[t] # "unborn" =>
            /\ config[t].steps >= MinSteps /\ config[t].steps <= MaxStepsAllowed
            /\ config[t].notificationInterval >= MinInterval
            /\ config[t].delayMs >= MinDelayMs /\ config[t].delayMs <= MaxDelayMs)
  /\ [][(response'.tool = "start_long_running_task" /\ response'.kind # "started")
          => (response'.kind = "error" /\ response'.isError /\ UNCHANGED core)]_vars

C10_Witness ==
  /\ response = ErrorResult("start_long_running_task")
  /\ runningTasks # {}
  /\ \E t \in TaskIds : pc[t] = "delay"

\* the executor is between its start and its terminal notification
InFlight(t) == pc[t] \in {"delay", "sampling"}

\* the event a step has appended first to the events of a task
FirstNew(t) == events'[t][Len(events[t]) + 1]

\* C11: a failed sampling exchange at step i appends a sampling-error event for
\* step i and changes nothing else: no error event ever appears, the loop goes
\* on to step i + 1 (or ends as it would have), the other tasks are untouched,
\* and a task that ends uncancelled has a progress event for each of its steps
\* and ends with completion.
C11_SamplingFailureIsNotFatal ==
  /\ [](\A t \in TaskIds :
          \A k \in Indices(events[t], {"sampling_error"}) :
            /\ k > 1 /\ events[t][k - 1] = Event("progress", events[t][k].step)
            /\ Count(events[t], {"error"}) = 0
            /\ (pc[t] = "done" /\ ~CancelSucceeded(t)) =>
                 /\ StepsOfType(events[t], "progress") = 1..config[t].steps
                 /\ Last(events[t]) = Event("completion", config[t].steps))
  /\ [][\A t \in TaskIds :
          (/\ pc[t] = "sampling" /\ pc'[t] # "sampling"
           /\ FirstNew(t).type # "sampling_response") =>
            /\ FirstNew(t) = Event("sampling_error", i[t])
            /\ UNCHANGED <<cancelled, config, starting, nextId, taskId, server>>
            /\ \A u \in TaskIds \ {t} :
                 events'[u] = events[u] /\ pc'[u] = pc[u] /\ i'[u] = i[u]
            /\ IF i[t] < config[t].steps /\ ~cancelled[t]
               THEN /\ pc'[t] = "delay" /\ i'[t] = i[t] + 1
                    /\ Len(events'[t]) = Len(events[t]) + 1
                    /\ runningTasks' = runningTasks
               ELSE /\ pc'[t] = "done"
                    /\ Len(events'[t]) = Len(events[t]) + 2
                    /\ Last(events'[t]).type =
                         IF cancelled[t] THEN "cancelled" ELSE "completion"]_vars

C11_Witness ==
  \E t \in TaskIds :
    /\ pc[t] = "done" /\ ~CancelSucceeded(t)
    /\ config[t].steps >= 2
    /\ \E k \in DOMAIN events[t] : events[t][k] = Event("sampling_error", 1)
    /\ Last(events[t]).type = "completion"

\* C12: a task never has more than one sampling request outstanding; while its
\* request is outstanding the executor is waiting for it, not in a delay, and a
\* step that leaves the request outstanding changes neither the task's step
\* counters nor its events nor the executor's position.
C12_OneOutstandingSamplingRequest ==
  /\ [](\A t \in TaskIds : pending[t] <= 1 /\ (pending[t] = 1 => pc[t] = "sampling"))
  /\ [][\A t \in TaskIds :
          (pending[t] >= 1 /\ pending'[t] >= 1) =>
            /\ i'[t] = i[t]
            /\ currentStep'[t] = currentStep[t]
            /\ taskInfo'[t].currentStep = taskInfo[t].currentStep
            /\ events'[t] = events[t]
            /\ pc'[t] = pc[t]]_vars

C12_Witness ==
  \E t \in TaskIds :
    /\ pending[t] = 1
    /\ i[t] >= 2
    /\ Count(events[t], {"sampling_response", "sampling_error"}) >= 1

\* C13: a successful cancel_task naming one task leaves every other task's
\* cancellation flag, TaskInfo, step counters, events, position and registry
\* entry as they were; and a task that ends without having been cancelled
\* itself has a progress event for each of its steps and ends with completion.
C13_CancelLeavesOtherTasksAlone ==
  /\ [][\A t \in TaskIds :
          response' = CancelledResult(t) =>
            \A u \in TaskIds \ {t} :
              /\ cancelled'[u] = cancelled[u]
              /\ taskInfo'[u] = taskInfo[u]
              /\ currentStep'[u] = currentStep[u] /\ i'[u] = i[u]
              /\ events'[u] = events[u] /\ pc'[u] = pc[u]
              /\ (u \in runningTasks <=> u \in runningTasks')
              /\ entry'[u] = entry[u]]_vars
  /\ [](\A u \in TaskIds :
          (pc[u] = "done" /\ ~CancelSucceeded(u)) =>
            /\ ~cancelled[u]
            /\ StepsOfType(events[u], "progress") = 1..config[u].steps
            /\ Last(events[u]) = Event("completion", config[u].steps))

C13_Witness ==
  \E t, u \in TaskIds :
    /\ t # u
    /\ response = CancelledResult(t)
    /\ InFlight(t) /\ cancelled[t]
    /\ InFlight(u) /\ ~cancelled[u] /\ u \in runningTasks
    /\ Count(events[u], {"progress"}) >= 1

\* C14: while a task is suspended in its delay or awaiting its sampling reply,
\* every other executor that waits for its timer or for its reply can take its
\* next step, and the handlers of start_long_running_task and cancel_task can
\* run; only the continuation of a start handler (a microtask) comes first.
C14_SuspensionBlocksOnlyItsTask ==
  \A t \in TaskIds :
    (InFlight(t) /\ Accepting) =>
      IF HandlerSuspended
      THEN ENABLED (\E s \in TaskIds : StartTaskReturn(s))
      ELSE /\ \A u \in TaskIds \ {t} :
                /\ pc[u] = "delay" => ENABLED DelayElapses(u)
                /\ pc[u] = "sampling" =>
                     /\ ENABLED SamplingResolves(u, TRUE)
                     /\ ENABLED SamplingResolves(u, FALSE)
           /\ \A id \in CancelIds : ENABLED CancelTask(id)
           /\ ENABLED StartTaskRejected
           /\ (nextId <= MaxTasks /\ WorkOf(nextId - 1) + 1 + MinSteps <= MaxWork) =>
                ENABLED (\E args \in StartArgs : StartTaskCall(args, nextId))

C14_Witness ==
  \E t, u \in TaskIds :
    /\ t # u
    /\ pc[t] = "sampling" /\ i[t] = 1
    /\ pc[u] = "delay" /\ i[u] >= 2
    /\ ~HandlerSuspended

\* C15: once the process has exited after the interrupt signal, the registry is
\* empty and every task that had been started has emitted its terminal event,
\* the cancelled event if it was cancelled: no executor is left in flight.
C15_CancelledEmittedBeforeExit ==
  /\ server \in {"closing", "exited"} =>
       /\ runningTasks = {}
       /\ \A t \in TaskIds : InFlight(t) => cancelled[t]
  /\ server = "exited" =>
       \A t \in TaskIds :
         /\ ~InFlight(t)
         /\ (pc[t] = "done" /\ cancelled[t]) => Last(events[t]).type = "cancelled"

\* C16: the cleanup run by the interrupt handler sets the cancellation flag of
\* the executor, and of the TaskInfo, of every entry the registry holds when it
\* runs, and leaves the registry empty.
C16_CleanupCancelsAll ==
  /\ [][(server = "running" /\ server' = "closing") =>
          /\ \A id \in runningTasks :
               cancelled'[entry[id]] /\ taskInfo'[entry[id]].cancelled
          /\ runningTasks' = {}
          /\ \A id \in TaskIds : entry'[id] = 0]_vars
  /\ [](server \in {"closing", "exited"} => runningTasks = {})

C16_Witness ==
  /\ server = "closing"
  /\ \E t, u \in TaskIds :
       /\ t # u
       /\ InFlight(t) /\ cancelled[t] /\ taskInfo[t].cancelled /\ cancelPoint[t] = 0
       /\ InFlight(u) /\ cancelled[u] /\ taskInfo[u].cancelled /\ cancelPoint[u] = 0

\* C17: no two accepted start calls have received the same identifier, and an
\* executor in flight whose handler has returned and that was not cancelled is
\* still the entry the registry holds under its identifier.
C17_UniqueIdentifiers ==
  /\ \A t, u \in TaskIds :
       (t # u /\ taskId[t] # 0 /\ taskId[u] # 0) => taskId[t] # taskId[u]
  /\ \A t \in TaskIds :
       (InFlight(t) /\ t \notin starting /\ ~cancelled[t]) =>
          (taskId[t] \in runningTasks /\ entry[taskId[t]] = t)

\* C18: when a start handler registers its task under an identifier the
\* registry already holds, the call returns an error-flagged result and the
\* registry, its entries and the cancellation flags stay as they were.
C18_DuplicateRegistrationFails ==
  [][\A t \in TaskIds :
       (t \in starting /\ t \notin starting' /\ taskId[t] \in runningTasks) =>
          /\ response'.kind = "error" /\ response'.isError
          /\ runningTasks' = runningTasks
          /\ entry' = entry
          /\ cancelled' = cancelled]_vars

\* C19: a notification whose transmission fails never stops a task: no task
\* has an error event, and the process has not ended while an executor is
\* still in flight.
C19_TransmitFailureNotFatal ==
  \A t \in TaskIds :
    /\ Count(events[t], {"error"}) = 0
    /\ InFlight(t) => server # "crashed"

\* C20: a task whose step loop failed has exactly one error event, its last
\* event, carrying the step the loop had reached, has neither a completion nor
\* a cancelled event, and is absent from the registry; the failing step leaves
\* every other task and the server as they were.
C20_FailureEndsOnlyItsTask ==
  /\ [](\A t \in TaskIds :
          Count(events[t], {"error"}) > 0 =>
            /\ Count(events[t], {"error"}) = 1
            /\ Count(events[t], {"completion", "cancelled"}) = 0
            /\ Last(events[t]) = Event("error", i[t])
            /\ pc[t] = "done"
            /\ taskId[t] \notin runningTasks
            /\ server = "running")
  /\ [][\A t \in TaskIds :
          (pc[t] # "done" /\ pc'[t] = "done" /\ Last(events'[t]).type = "error") =>
            /\ server' = server
            /\ \A u \in TaskIds \ {t} :
                 /\ pc'[u] = pc[u] /\ events'[u] = events[u]
                 /\ i'[u] = i[u] /\ currentStep'[u] = currentStep[u]
                 /\ cancelled'[u] = cancelled[u] /\ taskInfo'[u] = taskInfo[u]
                 /\ (u \in runningTasks <=> u \in runningTasks')]_vars

C20_Witness ==
  \E t, u \in TaskIds :
    /\ t # u
    /\ pc[t] = "done"
    /\ Last(events[t]).type = "error" /\ Last(events[t]).step >= 2
    /\ InFlight(u) /\ u \in runningTasks

\* Math.round(step / steps * 100): the nearest integer, halves upwards
Rounded(step, steps) == (200 * step + steps) \div (2 * steps)

\* the elements of a sequence
Range(seq) == {seq[k] : k \in DOMAIN seq}

SamplingTypes == {"sampling_response", "sampling_error"}

\* C21: the progress value of every start, completion, cancelled and error
\* event is an integer between 0 and 100, equal to step / totalSteps * 100
\* rounded to the nearest integer.
C21_PercentageIsRoundedInteger ==
  \A t \in TaskIds :
    \A k \in Indices(events[t], ProgressTypes) :
      LET e == events[t][k]
          q == ProgressField(e.type, e.step, config[t].steps)
      IN  /\ q.num % q.den = 0
          /\ q.num >= 0 /\ q.num <= 100 * q.den
          /\ q.num = Rounded(e.step, config[t].steps) * q.den

\* C22: along the events of a task the step never decreases, the progress
\* value never decreases from one event that carries it to a later one, and a
\* completion event carries step = totalSteps and the progress value 100.
C22_StepAndPercentageMonotone ==
  \A t \in TaskIds :
    LET evs == events[t]
        n == config[t].steps
        P(k) == ProgressField(evs[k].type, evs[k].step, n)
    IN  /\ \A j, k \in DOMAIN evs :
             j < k =>
               /\ evs[j].step <= evs[k].step
               /\ (evs[j].type \in ProgressTypes /\ evs[k].type \in ProgressTypes) =>
                    P(j).num * P(k).den <= P(k).num * P(j).den
        /\ \A k \in DOMAIN evs :
             evs[k].type = "completion" =>
               /\ evs[k].step = n
               /\ P(k).num = 100 * P(k).den

C22_Witness ==
  \E t \in TaskIds :
    /\ pc[t] = "done"
    /\ config[t].steps = 3
    /\ Last(events[t]) = Event("cancelled", 2)
    /\ ProgressField("cancelled", 2, config[t].steps) = [num |-> 200, den |-> 3]

\* C23: a cancel_task call that follows the acknowledgement of a start call at
\* once, naming the returned identifier, succeeds; a task cancelled before its
\* first delay has elapsed has no progress and no completion event, the next
\* step of its executor ends it with the cancelled event, and that event
\* carries step 0 or 1.
C23_ImmediateCancel ==
  /\ [](\A t \in TaskIds :
          cancelPoint[t] = 1 =>
            /\ Count(events[t], {"progress", "completion"}) = 0
            /\ pc[t] = "done" =>
                 /\ Last(events[t]).type = "cancelled"
                 /\ Last(events[t]).step \in {0, 1})
  /\ [][(/\ response.kind = "started"
         /\ response'.tool = "cancel_task"
         /\ response'.taskId = response.taskId) =>
          (/\ response' = CancelledResult(response.taskId)
           /\ cancelPoint'[entry[response.taskId]] = 1)]_vars
  /\ [][\A t \in TaskIds :
          (cancelPoint[t] = 1 /\ pc[t] = "delay" /\ events'[t] # events[t]) =>
            (pc'[t] = "done" /\ Last(events'[t]).type = "cancelled")]_vars

C23_Witness ==
  \E t \in TaskIds :
    /\ config[t].steps = MaxStepsAllowed
    /\ cancelPoint[t] = 1
    /\ pc[t] = "done"
    /\ events[t] = <<Event("start", 0), Event("cancelled", 1)>>

\* C27: once the process has ended on a signal, SIGINT or SIGTERM, the registry
\* is empty and every executor still in flight has its cancellation flag set.
C27_CleanupOnEverySignal ==
  server \in {"exited", "killed"} =>
    /\ runningTasks = {}
    /\ \A t \in TaskIds : InFlight(t) => cancelled[t] /\ taskInfo[t].cancelled

\* C28: whenever no start handler is suspended, the keys of the registry are
\* the identifiers of the tasks in flight whose cancellation flag is not set;
\* and a cancel_task call naming an identifier that start_long_running_task has
\* returned succeeds exactly when that task is in flight and not cancelled.
C28_RegistryIsRunningUncancelled ==
  /\ [](~HandlerSuspended =>
          runningTasks = {taskId[t] : t \in {u \in TaskIds : InFlight(u) /\ ~cancelled[u]}})
  /\ [][\A id \in TaskIds :
          (/\ response'.tool = "cancel_task"
           /\ response'.taskId = id
           /\ \E t \in TaskIds : taskId[t] = id /\ t \notin starting) =>
            (response'.kind = "cancelled" <=>
               \E t \in TaskIds : taskId[t] = id /\ InFlight(t) /\ ~cancelled[t])]_vars

C28_Witness ==
  \E t, u \in TaskIds :
    /\ ~HandlerSuspended
    /\ InFlight(t) /\ ~cancelled[t] /\ taskId[t] \in runningTasks
    /\ InFlight(u) /\ cancelled[u] /\ taskId[u] \notin runningTasks
    /\ response = NotFoundResult(taskId[u])

\* C29: the steps at which an executor has issued a sampling request are, with
\* enableSampling, the steps with a progress event that are multiples of
\* notificationInterval, each once, and none without enableSampling, in which
\* case the task has no sampling_response or sampling_error event either; a
\* request is issued in the step that follows the delay, after the progress
\* notification of that step.
C29_SamplingCadence ==
  /\ [](\A t \in TaskIds :
          /\ Range(requested[t]) =
               IF config[t].enableSampling
               THEN {s \in StepsOfType(events[t], "progress") :
                       s % config[t].notificationInterval = 0}
               ELSE {}
          /\ Cardinality(Range(requested[t])) = Len(requested[t])
          /\ ~config[t].enableSampling => Count(events[t], SamplingTypes) = 0)
  /\ [][\A t \in TaskIds :
          requested'[t] # requested[t] =>
            /\ pc[t] = "delay"
            /\ requested'[t] = Append(requested[t], i[t])
            /\ events'[t] = Append(events[t], Event("progress", i[t]))]_vars

C29_Witness ==
  \E t \in TaskIds :
    /\ pc[t] = "done"
    /\ config[t].enableSampling /\ config[t].notificationInterval = 2
    /\ config[t].steps = 3
    /\ requested[t] = <<2>>
    /\ Last(events[t]).type = "completion"

\* C30: a sampling request issued for step s has exactly one sampling_response
\* or sampling_error event, carrying s, unless it is the request still
\* outstanding, which has none; that event comes before every event of a later
\* step, no event of a later step exists while the request is outstanding, and
\* there is no sampling event without a request.
C30_OneEventPerSamplingRequest ==
  \A t \in TaskIds :
    LET evs == events[t]
        Settled(s) == {k \in Indices(evs, SamplingTypes) : evs[k].step = s}
        outstanding == IF pending[t] = 1 THEN {requested[t][Len(requested[t])]} ELSE {}
    IN  /\ \A s \in Range(requested[t]) \ outstanding :
             /\ Cardinality(Settled(s)) = 1
             /\ \A j \in Settled(s), k \in DOMAIN evs : evs[k].step > s => j < k
        /\ \A s \in outstanding :
             /\ Settled(s) = {}
             /\ \A k \in DOMAIN evs : evs[k].step <= s
        /\ \A k \in Indices(evs, SamplingTypes) : evs[k].step \in Range(requested[t])

C30_Witness ==
  \E t \in TaskIds :
    /\ requested[t] = <<1, 2>>
    /\ pending[t] = 0
    /\ \E j, k \in DOMAIN events[t] :
         /\ j < k
         /\ events[t][j] = Event("sampling_error", 1)
         /\ events[t][k] = Event("sampling_response", 2)

\* C24: whenever the server has answered a call executeLongRunningProcess made,
\* the tool name the call carried is start_long_running_task, the server's
\* switch has the task-starting case for it, and the result is not an error
\* result.
C24_ClientToolNameAccepted ==
  response.tool = EXECUTE_LONG_PROCESS =>
    /\ EXECUTE_LONG_PROCESS = "start_long_running_task"
    /\ ToolCase(EXECUTE_LONG_PROCESS) = "start_long_running_task"
    /\ ~response.isError

\* C25: every run of the client's sampling-request handler ends by returning a
\* reply with role assistant and a content of type text carrying a text; it
\* never ends with an exception.
C25_SamplingHandlerAlwaysReplies ==
  client.outcome.op = "sampling" =>
    /\ client.outcome.status = "returned"
    /\ client.outcome.role = "assistant"
    /\ client.outcome.type = "text"
    /\ client.outcome.text # ""

\* C26: getNotificationStatistics() has exactly the types of the notifications
\* handled so far as its keys and maps each to the number of them handled, and
\* getSamplingStatistics().totalRequests is the number of sampling requests
\* handled; for a client that has handled nothing there are no keys and the
\* total and the average length are 0.
C26_StatisticsCountHandled ==
  /\ DOMAIN getNotificationStatistics = {k \in NotificationTypes : client.handled[k] > 0}
  /\ \A k \in DOMAIN getNotificationStatistics :
       getNotificationStatistics[k] = Num(client.handled[k])
  /\ getSamplingStatistics.totalRequests = client.sampled
  /\ Dispatched(client) = 0 =>
       /\ getNotificationStatistics = << >>
       /\ getSamplingStatistics = [totalRequests |-> 0, averageResponseLength |-> 0]

\* C31: under fairness (a start handler's continuation runs, every step delay
\* elapses and every sampling request settles), every accepted task eventually
\* has a terminal event, has ended, and stays absent from the registry.
C31_EveryTaskTerminates ==
  \A t \in TaskIds :
    [](pc[t] # "unborn" =>
         <>[](Terminated(t) /\ pc[t] = "done" /\ taskId[t] \notin runningTasks))

C31_Witness ==
  \E t, u \in TaskIds :
    /\ t # u
    /\ pc[t] = "done" /\ Last(events[t]).type = "completion"
    /\ pc[u] = "done" /\ Last(events[u]).type = "cancelled"
    /\ Count(events[u], SamplingTypes) >= 1
    /\ runningTasks = {}

C33_CancelledNeverCompletes ==
  \A t \in TaskIds :
    CancelSucceeded(t) =>
      /\ Count(events[t], {"completion"}) = 0
      /\ pc[t] = "done" =>
           /\ Last(events[t]).type = "cancelled"
           /\ Count(events[t], TerminalTypes) = 1

C33_Witness ==
  \E t \in TaskIds :
    /\ CancelSucceeded(t)
    /\ cancelPoint[t] = config[t].steps + 1
    /\ pc[t] = "done"
    /\ config[t].steps \in StepsOfType(events[t], "progress")
    /\ Last(events[t]) = Event("cancelled", config[t].steps)

\* C34: when the sampling request of step i settles for an executor whose
\* cancellation flag is set, the executor sends the sampling_response or
\* sampling_error event of step i followed by the cancelled event with step i
\* and ends: it begins no further step and sends no further progress event.
C34_CancelDuringSampling ==
  [][\A t \in TaskIds :
       (pc[t] = "sampling" /\ cancelled[t] /\ pc'[t] # "sampling") =>
         /\ Len(events'[t]) = Len(events[t]) + 2
         /\ SubSeq(events'[t], 1, Len(events[t])) = events[t]
         /\ events'[t][Len(events[t]) + 1].type \in SamplingTypes
         /\ events'[t][Len(events[t]) + 1].step = i[t]
         /\ events'[t][Len(events[t]) + 2] = Event("cancelled", i[t])
         /\ pc'[t] = "done"
         /\ i'[t] = i[t]
         /\ currentStep'[t] = i[t]
         /\ taskInfo'[t].currentStep = i[t]]_vars

C34_Witness ==
  \E t \in TaskIds :
    /\ pc[t] = "done"
    /\ cancelPoint[t] = 2
    /\ config[t].steps = 3
    /\ events[t] = <<Event("start", 0), Event("progress", 1),
                     Event("sampling_error", 1), Event("cancelled", 1)>>

\* C35: a step of an executor whose cancellation flag is set advances neither
\* currentStep nor taskInfo.currentStep, starts no delay and sends no progress
\* event: the executor leaves the loop and ends.
C35_LoopHeadChecksFlag ==
  [][\A t \in TaskIds :
       (cancelled[t] /\ InFlight(t) /\ (pc'[t] # pc[t] \/ events'[t] # events[t])) =>
         /\ currentStep'[t] = currentStep[t]
         /\ taskInfo'[t].currentStep = taskInfo[t].currentStep
         /\ pc'[t] = "done"
         /\ Count(events'[t], {"progress"}) = Count(events[t], {"progress"})]_vars

C35_Witness ==
  \E t \in TaskIds :
    /\ pc[t] = "done"
    /\ cancelPoint[t] = 2
    /\ config[t].steps >= 2
    /\ currentStep[t] = 1 /\ taskInfo[t].currentStep = 1
    /\ StepsOfType(events[t], "progress") = {1}
    /\ Count(events[t], {"sampling_response"}) = 1

\* C36: a cancel_task call naming the identifier of a task for which an earlier
\* cancel_task succeeded returns the not-found result and changes nothing, also
\* while that task's executor is still in flight and has not sent its
\* cancelled event.
C36_SecondCancelNotFound ==
  [][\A t \in TaskIds :
       (/\ CancelSucceeded(t)
        /\ response'.tool = "cancel_task"
        /\ response'.taskId = taskId[t]) =>
         (response' = NotFoundResult(taskId[t]) /\ core' = core)]_vars

C36_Witness ==
  \E t \in TaskIds :
    /\ CancelSucceeded(t)
    /\ InFlight(t)
    /\ Count(events[t], {"cancelled"}) = 0
    /\ response = NotFoundResult(taskId[t])

\* C37: in the consolidated server a progress event for step i is sent only by
\* the step in which the delay of step i elapses, with the cancellation flag
\* not set, and a task whose cancel arrived during the delay of step i has no
\* progress event for step i.
C37_ProgressAfterDelay ==
  /\ [][\A t \in TaskIds :
          Len(events'[t]) > Len(events[t]) =>
            (events'[t][Len(events'[t])].type = "progress" =>
               /\ pc[t] = "delay"
               /\ ~cancelled[t]
               /\ events'[t][Len(events'[t])].step = i[t])]_vars
  /\ [](\A t \in TaskIds :
          cancelPoint[t] # 0 => cancelPoint[t] \notin StepsOfType(events[t], "progress"))

\* C38: when execute has completed all steps, the samplingRequests counter of
\* the completion notification and of the returned result equals the number of
\* sampling requests issued during the run, whether they succeeded or failed.
C38_SamplingRequestsCounted ==
  longRunningTool.pc = "done" =>
    /\ longRunningTool.completion.present /\ longRunningTool.result.present
    /\ longRunningTool.completion.samplingRequests = longRunningTool.issued
    /\ longRunningTool.result.samplingRequests = longRunningTool.issued

\* C39: given '--sampling false' the client does not exit with an
\* unknown-argument error and the tools/call request it sends carries
\* enableSampling = false; given '--sampling true', or no option at all, it does
\* not exit with that error either and the request carries enableSampling =
\* true.
C39_SamplingOption ==
  cli.argv \in {<<"--sampling", "false">>, <<"--sampling", "true">>, << >>} =>
    /\ cli.exit.message # "Unknown argument"
    /\ cli.pc = "executing" =>
         CallArguments(cli.params)["enableSampling"] = (cli.argv # <<"--sampling", "false">>)

====
